---- MODULE Spec2Model ----
(***************************************************************************)
(* Model of PolicyMiddleware (src/policy_middleware.py): the two-tier      *)
(* rate limiter (fixed burst epoch + sliding one-minute window), the       *)
(* module / action policy checks and the audit log.                        *)
(*                                                                         *)
(* Time is an integer clock `now` (time.time() and datetime.now() read     *)
(* it).  It advances in half-window ticks, so that differences of clock    *)
(* reads fall below, exactly on and above the 60 second threshold of       *)
(* every comparison in the source.                                         *)
(*                                                                         *)
(* Spec     : validate_action calls execute one at a time (each call is    *)
(*            one action; the clock may advance between its clock reads).  *)
(* SpecConc : validate_action calls of several threads interleave at the   *)
(*            statement boundaries of the source (the class has no lock).  *)
(* SpecGov  : calls one at a time, together with the endpoints of          *)
(*            src/main.py that read the engine (rate-limits, audit-log)    *)
(*            or write its audit log (governance override / approval).     *)
(* SpecStatus : calls one at a time and the read-only status call.         *)
(* SpecLoad : construction of the engine from a policy that may lack       *)
(*            keys, followed by calls.                                     *)
(* SpecRoll : calls one at a time under policies whose per-minute limit    *)
(*            exceeds the burst limit; a call may take a whole window.     *)
(* SpecLive : calls one at a time without end, under the fairness that     *)
(*            time keeps advancing and a valid request keeps being made.   *)
(***************************************************************************)
EXTENDS Integers, Sequences, FiniteSets, TLC

\* ------------------------------------------------------------- bounds
\* largest max_requests_per_minute of the policies explored
MaxRate == 2
\* number of requests that write the audit log (validate_action calls,
\* governance writes) explored
MaxCalls == 3
\* how many times the clock ticks
MaxTicks == 4

\* ------------------------------------------------- program constants
\* the 60 seconds of the burst epoch and of the sliding window
Window == 60
\* burst_window_start before the first check (Optional[float] = None)
None == -1

TickStep == Window \div 2
MaxTime == MaxTicks * TickStep
\* time that may pass between two clock reads of one call
Drift == {0, TickStep}

\* policy['allowed_modules'] and policy['restricted_actions'] of the demo
allowed_modules == {"math", "http_request"}
restricted_actions == {"delete_database"}
\* the inputs of validate_action that are explored
Modules == {"math", "filesystem"}
Actions == {"calculate_sum", "delete_database"}
Threads == {1, 2}
\* the keys PolicyMiddleware reads from the policy
RequiredKeys == {"allowed_modules", "restricted_actions",
                 "rate_limits.max_requests_per_minute", "rate_limits.burst_limit"}
\* the (action, module) pairs explored at the governance endpoints and with
\* them at validate_action: one that the policy approves, one that fails both
\* policy checks
GovTargets == {<<"calculate_sum", "math">>, <<"delete_database", "filesystem">>}
\* the (action, module, reason) triples handed to manual_override
OverrideInputs == {<<"calculate_sum", "math", <<"cleared", "[VIOLATION]", "by hand">>>>,
                   <<"delete_database", "filesystem", <<"maintenance">>>>}
\* the (action, module, approved) triples handed to approve_action
ApproveInputs == {<<"calculate_sum", "math", FALSE>>,
                  <<"delete_database", "filesystem", TRUE>>}

VARIABLES
    now,                      \* the clock
    max_requests_per_minute,  \* policy['rate_limits'][...]
    burst_limit,
    request_times,            \* deque of admission timestamps
    current_burst,
    burst_window_start,
    audit_log,                \* list of entries, [ts, body]
    alerts,                   \* what print(f"ALERT: ...") wrote
    calls,                    \* number of validate_action calls and governance writes begun
    last,                     \* history: the most recent completed call
    admitted,                 \* history: record times of calls that returned True
    admitEpochs,              \* history: burst_window_start at each of these admissions
    epochAdmits,              \* history: calls returned True since burst_window_start was set
    run,                      \* history: the current run of consecutive valid calls
    pc, ctx,                  \* per thread: position in validate_action, locals
    policy_keys,              \* the keys the loaded policy holds
    engine,                   \* "none", "ok" (constructed) or "error" (__init__ raised)
    returned,                 \* the list object get_audit_log handed to its caller
    manual                    \* number of governance writes made

vars == <<now, max_requests_per_minute, burst_limit, request_times,
          current_burst, burst_window_start, audit_log, alerts, calls, last,
          admitted, admitEpochs, epochAdmits, run, pc, ctx, policy_keys, engine, returned, manual>>

policyVars == <<max_requests_per_minute, burst_limit, policy_keys, engine>>
govVars == <<returned, manual>>
limiterVars == <<request_times, current_burst, burst_window_start>>
histVars == <<last, admitted, admitEpochs, epochAdmits, run>>
threadVars == <<pc, ctx>>

NoCtx == [action |-> "", module |-> "", ct |-> 0, ts |-> 0, message |-> <<>>]

\* ------------------------------------------------------------ entries
\* f"[{timestamp}] [VIOLATION] {message}"
ViolationEntry(ts, message) == [ts |-> ts, body |-> <<"[VIOLATION]">> \o message]

\* f"[{datetime.now().isoformat()}] [PASS] {action_name} executed in module '{module}'"
PassEntry(ts, action_name, module) ==
    [ts |-> ts, body |-> <<"[PASS]", action_name, "executed in module", module>>]

\* the messages validate_action and _check_rate_limit hand to _enforce_violation
BurstMessage == <<"Rate limit exceeded: burst limit", ToString(burst_limit), "reached">>
MinuteMessage ==
    <<"Rate limit exceeded:", ToString(max_requests_per_minute), "requests/minute limit reached">>
ModuleMessage(module) == <<"Unauthorized module:", module>>
ActionMessage(action_name) == <<"Restricted action blocked:", action_name>>

\* ------------------------------------------------- _check_rate_limit
\* mutants of the burst comparison: > for >=, and one admission too early
BurstReachedStrict(cb) == cb > burst_limit
BurstReachedEarly(cb) == cb + 1 >= burst_limit

\* if self.current_burst >= self.burst_limit
BurstReached(cb) == cb >= burst_limit

\* mutants of the epoch test: two windows, and half the window
EpochExpiredLate(current_time, bws) == current_time - bws >= 2 * Window
EpochExpiredHalf(current_time, bws) == current_time - bws >= Window \div 2

\* if current_time - self.burst_window_start >= 60
EpochExpired(current_time, bws) == current_time - bws >= Window

\* mutant of the eviction loop: <= for <
RECURSIVE EvictInclusive(_, _)
EvictInclusive(rt, one_minute_ago) ==
    IF rt # <<>> /\ Head(rt) <= one_minute_ago
    THEN EvictInclusive(Tail(rt), one_minute_ago)
    ELSE rt

\* while self.request_times and self.request_times[0] < one_minute_ago: popleft()
RECURSIVE Evict(_, _)
Evict(rt, one_minute_ago) ==
    IF rt # <<>> /\ Head(rt) < one_minute_ago
    THEN Evict(Tail(rt), one_minute_ago)
    ELSE rt

\* mutant of the per-minute comparison: > for >=
WindowFullStrict(rt) == Len(rt) > max_requests_per_minute

\* if len(self.request_times) >= self.max_requests_per_minute
WindowFull(rt) == Len(rt) >= max_requests_per_minute

\* mutant: the burst comparison reads current_burst before the epoch reset
check_rate_limit_late_reset(bws, cb, rt, current_time) ==
    LET bws1 == IF bws = None THEN current_time ELSE bws
        expired == EpochExpired(current_time, bws1)
        cb2 == IF expired THEN 0 ELSE cb
        bws2 == IF expired THEN current_time ELSE bws1
        rt2 == Evict(rt, current_time - Window)
    IN  IF BurstReached(cb)
        THEN [verdict |-> "DeniedBurst", bws |-> bws2, cb |-> cb2, rt |-> rt]
        ELSE IF WindowFull(rt2)
        THEN [verdict |-> "DeniedWindow", bws |-> bws2, cb |-> cb2, rt |-> rt2]
        ELSE [verdict |-> "Allowed", bws |-> bws2, cb |-> cb2, rt |-> rt2]

\* mutant: the sliding window is trimmed and compared before the burst counter
check_rate_limit_window_first(bws, cb, rt, current_time) ==
    LET bws1 == IF bws = None THEN current_time ELSE bws
        expired == EpochExpired(current_time, bws1)
        cb2 == IF expired THEN 0 ELSE cb
        bws2 == IF expired THEN current_time ELSE bws1
        rt2 == Evict(rt, current_time - Window)
    IN  IF WindowFull(rt2)
        THEN [verdict |-> "DeniedWindow", bws |-> bws2, cb |-> cb2, rt |-> rt2]
        ELSE IF BurstReached(cb2)
        THEN [verdict |-> "DeniedBurst", bws |-> bws2, cb |-> cb2, rt |-> rt2]
        ELSE [verdict |-> "Allowed", bws |-> bws2, cb |-> cb2, rt |-> rt2]

\* The limiter state after the check run at current_time, and its verdict.
check_rate_limit(bws, cb, rt, current_time) ==
    LET bws1 == IF bws = None THEN current_time ELSE bws
        expired == EpochExpired(current_time, bws1)
        cb2 == IF expired THEN 0 ELSE cb
        bws2 == IF expired THEN current_time ELSE bws1
        rt2 == Evict(rt, current_time - Window)
    IN  IF BurstReached(cb2)
        THEN [verdict |-> "DeniedBurst", bws |-> bws2, cb |-> cb2, rt |-> rt]
        ELSE IF WindowFull(rt2)
        THEN [verdict |-> "DeniedWindow", bws |-> bws2, cb |-> cb2, rt |-> rt2]
        ELSE [verdict |-> "Allowed", bws |-> bws2, cb |-> cb2, rt |-> rt2]

\* --------------------------------------------------- validate_action
\* mutants of the order of the checks
OutcomeActionFirst(verdict, action_name, module) ==
    IF verdict # "Allowed" THEN "RATE"
    ELSE IF action_name \in restricted_actions THEN "ACTION"
    ELSE IF module \notin allowed_modules THEN "MODULE"
    ELSE "PASS"
OutcomePolicyFirst(verdict, action_name, module) ==
    IF module \notin allowed_modules THEN "MODULE"
    ELSE IF action_name \in restricted_actions THEN "ACTION"
    ELSE IF verdict # "Allowed" THEN "RATE"
    ELSE "PASS"

\* The branch validate_action takes, in the order of its if statements.
Outcome(verdict, action_name, module) ==
    IF verdict # "Allowed" THEN "RATE"
    ELSE IF module \notin allowed_modules THEN "MODULE"
    ELSE IF action_name \in restricted_actions THEN "ACTION"
    ELSE "PASS"

\* mutant: the request is recorded as soon as the rate check has passed
QuotaConsumedAfterRate(outcome) == outcome # "RATE"

\* _record_request is reached on the last branch only
QuotaConsumed(outcome) == outcome = "PASS"

\* mutant: _enforce_violation returns True, and validate_action returns it
ReturnValueOfViolationTrue(outcome) == outcome # "RATE"

\* what validate_action returns: True after the PASS entry, False from the
\* rate check, and the False of _enforce_violation on the policy branches
ReturnValue(outcome) == outcome = "PASS"

\* the message of the violation a denied call logs
ViolationMessage(verdict, outcome, action_name, module) ==
    IF outcome = "RATE"
    THEN (IF verdict = "DeniedBurst" THEN BurstMessage ELSE MinuteMessage)
    ELSE IF outcome = "MODULE" THEN ModuleMessage(module)
    ELSE ActionMessage(action_name)

\* mutant: the violation is alerted but not logged
enforce_violation_nolog(log, ts, message) == log

\* _enforce_violation: self.audit_log.append(violation_entry)
enforce_violation_log(log, ts, message) == Append(log, ViolationEntry(ts, message))

\* mutant: a violation is logged without an alert
enforce_violation_silent(al, ts, message) == al

\* _enforce_violation: print(f"ALERT: {violation_entry}")
enforce_violation_alert(al, ts, message) == Append(al, ViolationEntry(ts, message))

\* mutant: an admission is not counted against the burst limit
record_request_burst_skip(cb) == cb

\* _record_request: append current_time, current_burst += 1
record_request_times(rt, current_time) == Append(rt, current_time)
record_request_burst(cb) == cb + 1

ValidInput(action_name, module) ==
    module \in allowed_modules /\ action_name \notin restricted_actions

\* entries of rt inside the closed interval [t - Window, t]
InWindow(rt, t) == Cardinality({i \in DOMAIN rt : rt[i] >= t - Window /\ rt[i] <= t})

NoRun == [len |-> 0, allTrue |-> TRUE, noBurst |-> TRUE, byWindow |-> TRUE]

TypeOK ==
    /\ now \in 0..MaxTime
    /\ current_burst \in Nat
    /\ burst_window_start \in {None} \cup (0..MaxTime)
    /\ calls \in 0..MaxCalls

\* returned.shared: the list the caller holds is the engine's own list object
NoList == [shared |-> FALSE]

\* the engine's state after __init__, whatever the limits of the policy
InitState ==
    /\ now = 0
    /\ request_times = <<>>
    /\ current_burst = 0
    /\ burst_window_start = None
    /\ audit_log = <<>>
    /\ alerts = <<>>
    /\ calls = 0
    /\ last = [op |-> "none"]
    /\ admitted = <<>>
    /\ admitEpochs = <<>>
    /\ epochAdmits = 0
    /\ run = NoRun
    /\ pc = [t \in Threads |-> "idle"]
    /\ ctx = [t \in Threads |-> NoCtx]
    /\ returned = NoList
    /\ manual = 0

InitEngine ==
    /\ InitState
    /\ max_requests_per_minute \in 1..MaxRate
    /\ burst_limit \in 1..(MaxRate + 1)

\* the engine constructed from a policy that holds every key
Init ==
    /\ InitEngine
    /\ policy_keys = RequiredKeys
    /\ engine = "ok"

\* the clock advances
Tick ==
    /\ now + TickStep <= MaxTime
    /\ now' = now + TickStep
    /\ UNCHANGED <<policyVars, limiterVars, audit_log, alerts, calls, histVars, threadVars,
                   govVars>>

\* History: the run of consecutive calls with valid module/action that began
\* inside the current burst epoch at a moment when current_burst was 0 (cb0
\* is current_burst as the call's check sees it).  hasRoom: fewer than
\* max_requests_per_minute admissions lie in the 60 seconds before the call.
NextRun(epochSet, cb0, valid, result, burstDenied, hasRoom) ==
    IF ~valid THEN NoRun
    ELSE IF run.len > 0 /\ ~epochSet
    THEN [len |-> run.len + 1,
          allTrue |-> run.allTrue /\ result,
          noBurst |-> run.noBurst /\ ~burstDenied,
          byWindow |-> run.byWindow /\ (result <=> hasRoom)]
    ELSE IF cb0 = 0
    THEN [len |-> 1, allTrue |-> result, noBurst |-> ~burstDenied,
          byWindow |-> (result <=> hasRoom)]
    ELSE NoRun

\* One whole validate_action(action_name, module) call.  d is the time that
\* passes between the clock read of _check_rate_limit (t1) and the clock read
\* of _record_request (t2); the entry is stamped right after (t3).
validate_action(action_name, module, d) ==
    /\ calls < MaxCalls
    /\ now + d <= MaxTime
    /\ LET t1 == now
           t2 == now + d
           t3 == t2
           chk == check_rate_limit(burst_window_start, current_burst, request_times, t1)
           outcome == Outcome(chk.verdict, action_name, module)
           result == ReturnValue(outcome)
           epochSet == chk.bws # burst_window_start
           message == ViolationMessage(chk.verdict, outcome, action_name, module)
       IN  /\ burst_window_start' = chk.bws
           /\ IF QuotaConsumed(outcome)
              THEN /\ request_times' = record_request_times(chk.rt, t2)
                   /\ current_burst' = record_request_burst(chk.cb)
              ELSE /\ request_times' = chk.rt
                   /\ current_burst' = chk.cb
           /\ IF outcome = "PASS"
              THEN /\ audit_log' = Append(audit_log, PassEntry(t3, action_name, module))
                   /\ alerts' = alerts
                   /\ now' = t3
              ELSE /\ audit_log' = enforce_violation_log(audit_log, t1, message)
                   /\ alerts' = enforce_violation_alert(alerts, t1, message)
                   /\ d = 0
                   /\ now' = t1
           /\ admitted' = IF result THEN Append(admitted, t2) ELSE admitted
           /\ admitEpochs' = IF result THEN Append(admitEpochs, chk.bws) ELSE admitEpochs
           /\ epochAdmits' = (IF epochSet THEN 0 ELSE epochAdmits) + (IF result THEN 1 ELSE 0)
           /\ run' = NextRun(epochSet, chk.cb, ValidInput(action_name, module), result,
                             chk.verdict = "DeniedBurst",
                             InWindow(admitted, t1) < max_requests_per_minute)
           /\ last' = [op |-> "validate", action |-> action_name, module |-> module,
                       result |-> result, outcome |-> outcome, tcheck |-> t1,
                       pre |-> [rt |-> request_times, cb |-> current_burst,
                                bws |-> burst_window_start, log |-> audit_log,
                                admitted |-> admitted],
                       chk |-> chk,
                       epochSet |-> epochSet,
                       epochBefore |-> IF epochSet THEN 0 ELSE epochAdmits]
    /\ calls' = calls + 1
    /\ UNCHANGED <<policyVars, threadVars, govVars>>

Validate == \E a \in Actions, m \in Modules, d \in Drift : validate_action(a, m, d)

Next == Tick \/ Validate

Spec == Init /\ [][Next]_vars

\* policies whose per-minute limit exceeds the burst limit, by more than
\* twice (burst_limit = 1) or by less
InitRoll ==
    /\ InitState
    /\ max_requests_per_minute = MaxRate + 1
    /\ burst_limit \in 1..MaxRate
    /\ policy_keys = RequiredKeys
    /\ engine = "ok"

\* a call may also take a whole window between its two clock reads
ValidateSlow == \E a \in Actions, m \in Modules, d \in Drift \cup {Window} : validate_action(a, m, d)

NextRoll == Tick \/ ValidateSlow

SpecRoll == InitRoll /\ [][NextRoll]_vars

\* ------------------------------------------------ calls without end
\* The limiter compares differences of clock reads only, so the clock's
\* origin can follow the clock: `now` stays where it is and every stored
\* timestamp moves back instead.  A timestamp more than a window and a tick
\* old is past every comparison and is kept at that age, which leaves
\* finitely many states for a run of calls that never ends.
Oldest == 0 - (Window + TickStep)
Age(ts, d) == IF ts = None THEN None ELSE IF ts - d < Oldest THEN Oldest ELSE ts - d
AgeAll(rt, d) == [i \in DOMAIN rt |-> Age(rt[i], d)]

\* time passes between calls
Elapse ==
    /\ request_times' = AgeAll(request_times, TickStep)
    /\ burst_window_start' = Age(burst_window_start, TickStep)
    /\ UNCHANGED <<now, policyVars, current_burst, audit_log, alerts, calls, histVars,
                   threadVars, govVars>>

\* One whole validate_action(action_name, module) call, as in Spec, seen from
\* the clock read at its end.  The list audit_log stands for the tail of the
\* log: the entry this call wrote (no later call reads the log).
validate_action_again(action_name, module, d) ==
    LET t1 == now
        t2 == now + d
        chk == check_rate_limit(burst_window_start, current_burst, request_times, t1)
        outcome == Outcome(chk.verdict, action_name, module)
        result == ReturnValue(outcome)
        message == ViolationMessage(chk.verdict, outcome, action_name, module)
        passed == t2 - now
    IN  /\ outcome # "PASS" => d = 0
        /\ burst_window_start' = Age(chk.bws, passed)
        /\ IF QuotaConsumed(outcome)
           THEN /\ request_times' = AgeAll(record_request_times(chk.rt, t2), passed)
                /\ current_burst' = record_request_burst(chk.cb)
           ELSE /\ request_times' = AgeAll(chk.rt, passed)
                /\ current_burst' = chk.cb
        /\ IF outcome = "PASS"
           THEN /\ audit_log' = <<PassEntry(Age(t2, passed), action_name, module)>>
                /\ alerts' = <<>>
           ELSE /\ audit_log' = enforce_violation_log(<<>>, t1, message)
                /\ alerts' = enforce_violation_alert(<<>>, t1, message)
        /\ last' = [op |-> "validate", action |-> action_name, module |-> module,
                    result |-> result, outcome |-> outcome, tcheck |-> t1,
                    pre |-> [rt |-> request_times, cb |-> current_burst,
                             bws |-> burst_window_start],
                    chk |-> chk]
        /\ UNCHANGED <<now, policyVars, calls, admitted, admitEpochs, epochAdmits, run,
                       threadVars, govVars>>

\* the caller who keeps retrying a valid request, and everybody else
Retry == \E d \in Drift : validate_action_again("calculate_sum", "math", d)
OtherCall ==
    \E a \in Actions, m \in Modules :
        ~ValidInput(a, m) /\ validate_action_again(a, m, 0)

NextLive == Elapse \/ Retry \/ OtherCall

\* time keeps advancing and the caller keeps retrying
SpecLive == Init /\ [][NextLive]_vars /\ WF_vars(Elapse) /\ WF_vars(Retry)

\* ------------------------------------------------ interleaved calls
\* Worker threads are interchangeable: a new call is taken by the first idle one.
FirstIdle(t) == pc[t] = "idle" /\ \A u \in Threads : u < t => pc[u] # "idle"

\* A thread enters validate_action(action_name, module) and runs
\* _check_rate_limit; when it denies, _enforce_violation takes the timestamp
\* of the entry it will write.
TCheck(t, action_name, module) ==
    /\ FirstIdle(t)
    /\ calls < MaxCalls
    /\ calls' = calls + 1
    /\ LET chk == check_rate_limit(burst_window_start, current_burst, request_times, now)
           outcome == Outcome(chk.verdict, action_name, module)
           message == ViolationMessage(chk.verdict, outcome, action_name, module)
       IN  /\ burst_window_start' = chk.bws
           /\ current_burst' = chk.cb
           /\ request_times' = chk.rt
           /\ IF chk.verdict = "Allowed"
              THEN /\ pc' = [pc EXCEPT ![t] = "policy"]
                   /\ ctx' = [ctx EXCEPT ![t] = [NoCtx EXCEPT !.action = action_name,
                                                             !.module = module]]
              ELSE /\ pc' = [pc EXCEPT ![t] = "violation"]
                   /\ ctx' = [ctx EXCEPT ![t] = [NoCtx EXCEPT !.ts = now,
                                                             !.message = message]]
    /\ UNCHANGED <<now, govVars, policyVars, audit_log, alerts, histVars>>

\* the module and restricted-action checks of validate_action; on a
\* violation _enforce_violation takes the timestamp of its entry
TPolicy(t) ==
    /\ pc[t] = "policy"
    /\ LET outcome == Outcome("Allowed", ctx[t].action, ctx[t].module)
           message == ViolationMessage("Allowed", outcome, ctx[t].action, ctx[t].module)
       IN  IF outcome = "PASS"
           THEN /\ pc' = [pc EXCEPT ![t] = "record"]
                /\ UNCHANGED ctx
           ELSE /\ pc' = [pc EXCEPT ![t] = "violation"]
                /\ ctx' = [ctx EXCEPT ![t] = [NoCtx EXCEPT !.ts = now,
                                                          !.message = message]]
    /\ UNCHANGED <<now, govVars, policyVars, limiterVars, audit_log, alerts, calls, histVars>>

\* _enforce_violation: self.audit_log.append(violation_entry), the alert,
\* return False
TViolation(t) ==
    /\ pc[t] = "violation"
    /\ audit_log' = enforce_violation_log(audit_log, ctx[t].ts, ctx[t].message)
    /\ alerts' = enforce_violation_alert(alerts, ctx[t].ts, ctx[t].message)
    /\ pc' = [pc EXCEPT ![t] = "idle"]
    /\ ctx' = [ctx EXCEPT ![t] = NoCtx]
    /\ UNCHANGED <<now, govVars, policyVars, limiterVars, calls, histVars>>

\* _record_request: current_time = time.time()
TRecordRead(t) ==
    /\ pc[t] = "record"
    /\ ctx' = [ctx EXCEPT ![t].ct = now]
    /\ pc' = [pc EXCEPT ![t] = "append"]
    /\ UNCHANGED <<now, govVars, policyVars, limiterVars, audit_log, alerts, calls, histVars>>

\* _record_request: request_times.append(current_time); current_burst += 1
TRecordAppend(t) ==
    /\ pc[t] = "append"
    /\ request_times' = record_request_times(request_times, ctx[t].ct)
    /\ current_burst' = record_request_burst(current_burst)
    /\ admitted' = Append(admitted, ctx[t].ct)
    /\ pc' = [pc EXCEPT ![t] = "stamp"]
    /\ UNCHANGED <<now, govVars, policyVars, burst_window_start, audit_log, alerts, calls,
                   last, epochAdmits, run, ctx>>
    /\ admitEpochs' = Append(admitEpochs, burst_window_start)

\* the PASS entry is formatted: datetime.now().isoformat()
TStamp(t) ==
    /\ pc[t] = "stamp"
    /\ ctx' = [ctx EXCEPT ![t].ts = now]
    /\ pc' = [pc EXCEPT ![t] = "log"]
    /\ UNCHANGED <<now, govVars, policyVars, limiterVars, audit_log, alerts, calls, histVars>>

\* self.audit_log.append(the PASS entry) and return True
TLog(t) ==
    /\ pc[t] = "log"
    /\ audit_log' = Append(audit_log, PassEntry(ctx[t].ts, ctx[t].action, ctx[t].module))
    /\ pc' = [pc EXCEPT ![t] = "idle"]
    /\ ctx' = [ctx EXCEPT ![t] = NoCtx]
    /\ UNCHANGED <<now, govVars, policyVars, limiterVars, alerts, calls, histVars>>

ThreadCheck == \E t \in Threads, a \in Actions, m \in Modules : TCheck(t, a, m)
ThreadPolicy == \E t \in Threads : TPolicy(t)
ThreadViolation == \E t \in Threads : TViolation(t)
ThreadRecordRead == \E t \in Threads : TRecordRead(t)
ThreadRecordAppend == \E t \in Threads : TRecordAppend(t)
ThreadStamp == \E t \in Threads : TStamp(t)
ThreadLog == \E t \in Threads : TLog(t)

NextConc ==
    \/ Tick
    \/ ThreadCheck
    \/ ThreadPolicy
    \/ ThreadViolation
    \/ ThreadRecordRead
    \/ ThreadRecordAppend
    \/ ThreadStamp
    \/ ThreadLog

SpecConc == Init /\ [][NextConc]_vars

\* ------------------------------------------- status and governance
\* mutant: a request made exactly 60 seconds ago is no longer counted
get_rate_limit_status_strict(rt, cb, current_time) ==
    LET one_minute_ago == current_time - Window
        requests_last_minute == Cardinality({i \in DOMAIN rt : rt[i] > one_minute_ago})
        until == IF rt # <<>> THEN 60 - (current_time - Head(rt)) ELSE 0
    IN  [requests_last_minute |-> requests_last_minute,
         max_requests_per_minute |-> max_requests_per_minute,
         remaining_requests |-> max_requests_per_minute - requests_last_minute,
         burst_usage |-> <<ToString(cb), "/", ToString(burst_limit)>>,
         time_until_rate_reset |-> IF until > 0 THEN until ELSE 0]

\* get_rate_limit_status: the dictionary it returns (times are integers here,
\* so round(time_until_reset, 2) changes nothing)
get_rate_limit_status(rt, cb, current_time) ==
    LET one_minute_ago == current_time - Window
        requests_last_minute == Cardinality({i \in DOMAIN rt : rt[i] >= one_minute_ago})
        until == IF rt # <<>> THEN 60 - (current_time - Head(rt)) ELSE 0
    IN  [requests_last_minute |-> requests_last_minute,
         max_requests_per_minute |-> max_requests_per_minute,
         remaining_requests |-> max_requests_per_minute - requests_last_minute,
         burst_usage |-> <<ToString(cb), "/", ToString(burst_limit)>>,
         time_until_rate_reset |-> IF until > 0 THEN until ELSE 0]

\* mutant: the status call trims the window like the check does
status_evicts(rt, current_time) == Evict(rt, current_time - Window)

\* request_times after get_rate_limit_status: it only iterates the deque
status_request_times(rt, current_time) == rt

\* GET /rate-limits
Status ==
    /\ request_times' = status_request_times(request_times, now)
    /\ last' = [op |-> "status", tnow |-> now,
                res |-> get_rate_limit_status(request_times, current_burst, now),
                pre |-> [rt |-> request_times, cb |-> current_burst,
                         bws |-> burst_window_start, log |-> audit_log]]
    /\ UNCHANGED <<now, policyVars, current_burst, burst_window_start, audit_log, alerts,
                   calls, admitted, admitEpochs, epochAdmits, run, threadVars, govVars>>

\* "[VIOLATION]" in entry: the text is searched in the whole entry
ContainsViolation(entry) == \E i \in DOMAIN entry.body : entry.body[i] = "[VIOLATION]"

\* mutant: the unfiltered branch returns self.audit_log itself
get_audit_log_nocopy(log, filter_violations) ==
    IF filter_violations
    THEN [val |-> SelectSeq(log, ContainsViolation), shared |-> FALSE]
    ELSE [val |-> log, shared |-> TRUE]

\* get_audit_log: a list comprehension or self.audit_log.copy(), a new list
\* either way (val: its entries; shared: it is the engine's own list object)
get_audit_log(log, filter_violations) ==
    IF filter_violations
    THEN [val |-> SelectSeq(log, ContainsViolation), shared |-> FALSE]
    ELSE [val |-> log, shared |-> FALSE]

\* GET /audit-log
AuditQuery(filter_violations) ==
    /\ LET r == get_audit_log(audit_log, filter_violations)
       IN  /\ returned' = [shared |-> r.shared]
           /\ last' = [op |-> "audit", filter |-> filter_violations, res |-> r.val,
                       pre |-> [log |-> audit_log]]
    /\ UNCHANGED <<now, policyVars, limiterVars, audit_log, alerts, calls, admitted,
                   admitEpochs, epochAdmits, run, threadVars, manual>>

\* The caller of get_audit_log empties the list it has just been handed
\* (list.clear()).  A list that is the engine's own object is emptied in the
\* engine too.
CallerMutate ==
    /\ last.op = "audit" /\ last.res # <<>>
    /\ audit_log' = IF returned.shared THEN <<>> ELSE audit_log
    /\ last' = [op |-> "mutate", filter |-> last.filter, pre |-> [log |-> audit_log]]
    /\ UNCHANGED <<now, policyVars, limiterVars, alerts, calls, admitted, admitEpochs, epochAdmits,
                   run,
                   threadVars, govVars>>

\* f"[MANUAL OVERRIDE] {action} in {module} - Reason: {reason}"
OverrideEntry(action, module, reason) ==
    [ts |-> None, body |-> <<"[MANUAL OVERRIDE]", action, "in", module, "- Reason:">> \o reason]

\* f"[APPROVAL GRANTED] {action} in {module}" / f"[APPROVAL DENIED] {action} in {module}"
ApprovalEntry(action, module, approved) ==
    [ts |-> None,
     body |-> <<IF approved THEN "[APPROVAL GRANTED]" ELSE "[APPROVAL DENIED]",
                action, "in", module>>]

\* mutant: the entry is inserted at the front of the log
manual_override_front(log, action, module, reason) ==
    <<OverrideEntry(action, module, reason)>> \o log

\* mutant: the override is written only for a request validate_action would approve
manual_override_checked(log, action, module, reason) ==
    IF ValidInput(action, module)
    THEN Append(log, OverrideEntry(action, module, reason))
    ELSE log

\* manual_override: policy_middleware.audit_log.append(...)
manual_override_log(log, action, module, reason) ==
    Append(log, OverrideEntry(action, module, reason))

\* approve_action: policy_middleware.audit_log.append(...) in both branches
approve_action_log(log, action, module, approved) ==
    Append(log, ApprovalEntry(action, module, approved))

GovPre == [rt |-> request_times, cb |-> current_burst, bws |-> burst_window_start,
           log |-> audit_log, alerts |-> alerts]

\* POST /governance/override
manual_override(action, module, reason) ==
    /\ calls < MaxCalls
    /\ calls' = calls + 1
    /\ manual' = manual + 1
    /\ audit_log' = manual_override_log(audit_log, action, module, reason)
    /\ last' = [op |-> "override", action |-> action, module |-> module, pre |-> GovPre]
    /\ UNCHANGED <<now, policyVars, limiterVars, alerts, admitted, admitEpochs, epochAdmits, run,
                   threadVars, returned>>

\* POST /governance/approve-action
approve_action(action, module, approved) ==
    /\ calls < MaxCalls
    /\ calls' = calls + 1
    /\ manual' = manual + 1
    /\ audit_log' = approve_action_log(audit_log, action, module, approved)
    /\ last' = [op |-> "approve", action |-> action, module |-> module,
                approved |-> approved, pre |-> GovPre]
    /\ UNCHANGED <<now, policyVars, limiterVars, alerts, admitted, admitEpochs, epochAdmits, run,
                   threadVars, returned>>

Audit == \E f \in BOOLEAN : AuditQuery(f)
Override == \E i \in OverrideInputs : manual_override(i[1], i[2], i[3])
Approve == \E i \in ApproveInputs : approve_action(i[1], i[2], i[3])
\* calls with no time passing inside them
ValidateNow == \E g \in GovTargets : validate_action(g[1], g[2], 0)

NextGov ==
    \/ Tick
    \/ ValidateNow
    \/ Status
    \/ Audit
    \/ CallerMutate
    \/ Override
    \/ Approve

\* one policy, in which both limits can bind
InitGov == Init /\ max_requests_per_minute = MaxRate /\ burst_limit = MaxRate

SpecGov == InitGov /\ [][NextGov]_vars

\* calls one at a time and status queries, under every policy
NextStatus == Next \/ Status

SpecStatus == Init /\ [][NextStatus]_vars

\* -------------------------------------------- construction from a policy
RateKeys == {"rate_limits.max_requests_per_minute", "rate_limits.burst_limit"}

\* the keys __init__ looks up in the loaded policy; a missing one raises
init_reads == RateKeys

\* PolicyMiddleware(policy_path): the engine exists unless a lookup raised
construct(keys) == IF init_reads \subseteq keys THEN "ok" ELSE "error"

\* the key whose lookup raises KeyError inside validate_action, "none" when
\* the call finishes: allowed_modules is looked up only after the rate check
\* passed, restricted_actions only after the module was found allowed
missing_key(verdict, module, keys) ==
    IF verdict # "Allowed" THEN "none"
    ELSE IF "allowed_modules" \notin keys THEN "allowed_modules"
    ELSE IF module \notin allowed_modules THEN "none"
    ELSE IF "restricted_actions" \notin keys THEN "restricted_actions"
    ELSE "none"

RateVerdict(t) ==
    check_rate_limit(burst_window_start, current_burst, request_times, t).verdict

\* the policy file as loaded, before the engine is constructed from it
InitLoad ==
    /\ InitEngine
    /\ max_requests_per_minute = MaxRate
    /\ burst_limit = MaxRate
    /\ policy_keys \in SUBSET RequiredKeys
    /\ engine = "none"

\* policy_middleware = PolicyMiddleware(policy_path)
Construct ==
    /\ engine = "none"
    /\ engine' = construct(policy_keys)
    /\ last' = [op |-> "construct"]
    /\ UNCHANGED <<now, max_requests_per_minute, burst_limit, policy_keys, limiterVars,
                   audit_log, alerts, calls, admitted, admitEpochs, epochAdmits, run,
                   threadVars, govVars>>

\* a validate_action call that runs to its return statement
ServeValidate ==
    \E a \in Actions, m \in Modules, d \in Drift :
        /\ engine = "ok"
        /\ missing_key(RateVerdict(now), m, policy_keys) = "none"
        /\ validate_action(a, m, d)

\* a validate_action call whose policy lookup raises KeyError: the rate check
\* has already run, nothing is recorded or logged, no value is returned
validate_action_raises(action_name, module) ==
    LET chk == check_rate_limit(burst_window_start, current_burst, request_times, now)
    IN  /\ calls < MaxCalls
        /\ missing_key(chk.verdict, module, policy_keys) # "none"
        /\ burst_window_start' = chk.bws
        /\ current_burst' = chk.cb
        /\ request_times' = chk.rt
        /\ calls' = calls + 1
        /\ run' = NoRun
        /\ epochAdmits' = IF chk.bws # burst_window_start THEN 0 ELSE epochAdmits
        /\ last' = [op |-> "keyerror", action |-> action_name, module |-> module,
                    key |-> missing_key(chk.verdict, module, policy_keys)]
        /\ UNCHANGED <<now, policyVars, audit_log, alerts, admitted, admitEpochs,
                       threadVars, govVars>>

ServeKeyError ==
    \E a \in Actions, m \in Modules :
        engine = "ok" /\ validate_action_raises(a, m)

NextLoad == Tick \/ Construct \/ ServeValidate \/ ServeKeyError

SpecLoad == InitLoad /\ [][NextLoad]_vars

\* ============================================================ claims
\* the values the clock can show from time t on
ClockFrom(t) == {k * TickStep : k \in 0..MaxTicks} \ (0..(t - 1))

IsSuffix(s, r) == \E k \in 0..Len(r) : s = SubSeq(r, k + 1, Len(r))
Front(s) == SubSeq(s, 1, Len(s) - 1)
LastEntry == audit_log[Len(audit_log)]
Validated == last.op = "validate"

\* current_burst as a check at time t must see it: 0 once the epoch has expired
EffectiveBurst(pre, t) ==
    IF pre.bws # None /\ t - pre.bws >= Window THEN 0 ELSE pre.cb
\* the rate limits leave room at time t
RateAllows(pre, t) ==
    /\ EffectiveBurst(pre, t) < burst_limit
    /\ InWindow(pre.rt, t) < max_requests_per_minute

\* C1 (as claimed): in every state reachable with interleaved validate calls,
\* current_burst never exceeds burst_limit and the entries of request_times
\* inside the last 60 seconds never exceed max_requests_per_minute.
CounterC1 ==
    /\ current_burst <= burst_limit
    /\ InWindow(request_times, now) <= max_requests_per_minute

\* C2: within one burst epoch at most burst_limit calls return True, and a
\* call made when burst_limit calls were already admitted in the epoch
\* returns False.
ThmC2 ==
    /\ epochAdmits <= burst_limit
    /\ (Validated /\ last.epochBefore >= burst_limit) => ~last.result

\* a call denied in a full epoch although the sliding window had room
WitC2 ==
    /\ Validated /\ ~last.result
    /\ last.epochBefore = burst_limit
    /\ ValidInput(last.action, last.module)
    /\ InWindow(last.pre.admitted, last.tcheck) < max_requests_per_minute

\* C3 (as claimed): every call of a run of at most burst_limit consecutive
\* valid calls, begun in one burst epoch with current_burst = 0, returns True.
CounterC3 == (run.len >= 1 /\ run.len <= burst_limit) => run.allTrue

\* C3 (amended): no call of such a run is denied by the burst check, and
\* each returns True exactly when fewer than max_requests_per_minute
\* admissions lie in the 60 seconds before it.
ThmC3 == (run.len >= 1 /\ run.len <= burst_limit) => (run.noBurst /\ run.byWindow)

\* a full run, under a policy with burst_limit <= max_requests_per_minute, in
\* which the per-minute check denied a call because of admissions the window
\* still held from before the epoch
WitC3 ==
    /\ run.len = burst_limit /\ ~run.allTrue /\ run.noBurst /\ run.byWindow
    /\ burst_limit <= max_requests_per_minute
    /\ Validated /\ last.pre.rt # <<>>
    /\ \A i \in DOMAIN last.pre.rt : last.pre.rt[i] < burst_window_start

\* C4: when the burst limit cannot bind (burst_limit > max_requests_per_minute)
\* every closed interval [t, t+60] holds at most max_requests_per_minute
\* admissions (it is enough to take t at each admission), and a valid call
\* made when the 60 seconds before it hold that many is denied by the
\* per-minute check.
ThmC4 ==
    burst_limit > max_requests_per_minute =>
        /\ \A i \in DOMAIN admitted :
              InWindow(admitted, admitted[i] + Window) <= max_requests_per_minute
        /\ ( /\ Validated
             /\ ValidInput(last.action, last.module)
             /\ InWindow(last.pre.admitted, last.tcheck) >= max_requests_per_minute )
           => /\ ~last.result
              /\ LastEntry.body = <<"[VIOLATION]", "Rate limit exceeded:",
                                    ToString(max_requests_per_minute),
                                    "requests/minute limit reached">>

\* the (N+1)-th valid call inside a minute, denied with N admissions behind it
WitC4 ==
    /\ burst_limit > max_requests_per_minute
    /\ Validated /\ ~last.result
    /\ ValidInput(last.action, last.module)
    /\ InWindow(last.pre.admitted, last.tcheck) = max_requests_per_minute
    /\ Len(admitted) > max_requests_per_minute

\* C5: a call that returns False appends nothing to request_times and does
\* not increment current_burst; a call that returns True appends exactly one
\* timestamp and adds exactly 1 to current_burst (counted from 0 when the
\* call's check started a new epoch).
ThmC5 ==
    Validated =>
        IF last.result
        THEN /\ request_times # <<>>
             /\ IsSuffix(Front(request_times), last.pre.rt)
             /\ request_times[Len(request_times)] >= last.tcheck
             /\ current_burst = EffectiveBurst(last.pre, last.tcheck) + 1
        ELSE /\ IsSuffix(request_times, last.pre.rt)
             /\ current_burst = EffectiveBurst(last.pre, last.tcheck)

\* a call denied for its module after the rate check passed, quota untouched
WitC5 ==
    /\ Validated /\ ~last.result
    /\ last.outcome = "MODULE"
    /\ request_times # <<>>
    /\ request_times = last.pre.rt
    /\ current_burst = last.pre.cb /\ current_burst > 0

\* the entries of rt not older than t - Window
Unexpired(rt, t) == SelectSeq(rt, LAMBDA x : x >= t - Window)

\* C6 (as claimed): the rate-limit check leaves request_times and
\* current_burst exactly as they were.
CounterC6 ==
    Validated => (last.chk.rt = last.pre.rt /\ last.chk.cb = last.pre.cb)

\* C6 (amended): the check never adds to request_times and never increments
\* current_burst: it leaves request_times alone or drops exactly the entries
\* older than now - 60, and it leaves current_burst alone or, when 60
\* seconds have passed since burst_window_start, sets it to 0.
ThmC6 ==
    Validated =>
        /\ last.chk.rt \in {last.pre.rt, Unexpired(last.pre.rt, last.tcheck)}
        /\ last.chk.cb \in {last.pre.cb, 0}
        /\ last.chk.cb # last.pre.cb =>
              (last.pre.bws # None /\ last.tcheck - last.pre.bws >= Window)

\* a check that both evicted an expired entry and reset the burst counter
WitC6 ==
    /\ Validated
    /\ Len(last.chk.rt) < Len(last.pre.rt)
    /\ last.chk.cb = 0 /\ last.pre.cb > 0

\* C7: every validate call appends exactly one entry to the audit log.
ThmC7 ==
    Validated =>
        /\ Len(audit_log) = Len(last.pre.log) + 1
        /\ Front(audit_log) = last.pre.log

\* a call denied by the per-minute check, with its one entry
WitC7 ==
    /\ Validated /\ last.chk.verdict = "DeniedWindow"
    /\ Len(audit_log) = Len(last.pre.log) + 1
    /\ Len(last.pre.log) > 0

\* C8: validate returns True exactly when the rate limits leave room at the
\* moment of the check, the module is allowed and the action not restricted.
ThmC8 ==
    Validated =>
        (last.result <=> /\ RateAllows(last.pre, last.tcheck)
                         /\ last.module \in allowed_modules
                         /\ last.action \notin restricted_actions)

\* a call admitted because its check reset an exhausted burst epoch
WitC8 ==
    /\ Validated /\ last.result
    /\ last.pre.cb >= burst_limit
    /\ last.pre.rt # <<>>

\* C9: a call for a module outside allowed_modules whose rate check passed
\* returns False, logs a VIOLATION naming the module and consumes no quota.
ThmC9 ==
    ( /\ Validated
      /\ last.module \notin allowed_modules
      /\ RateAllows(last.pre, last.tcheck) )
    => /\ ~last.result
       /\ LastEntry.body = <<"[VIOLATION]", "Unauthorized module:", last.module>>
       /\ IsSuffix(request_times, last.pre.rt)
       /\ current_burst = EffectiveBurst(last.pre, last.tcheck)

\* an unauthorized module with a restricted action, quota already in use
WitC9 ==
    /\ Validated
    /\ last.module \notin allowed_modules
    /\ last.action \in restricted_actions
    /\ RateAllows(last.pre, last.tcheck)
    /\ request_times # <<>> /\ current_burst > 0

\* C10: the entry of a denied call names the first failing check in the
\* order rate limit (burst before per-minute), module, restricted action.
ThmC10 ==
    (Validated /\ ~last.result) =>
        /\ Front(audit_log) = last.pre.log
        /\ LastEntry.body =
              IF EffectiveBurst(last.pre, last.tcheck) >= burst_limit
              THEN <<"[VIOLATION]", "Rate limit exceeded: burst limit",
                     ToString(burst_limit), "reached">>
              ELSE IF InWindow(last.pre.rt, last.tcheck) >= max_requests_per_minute
              THEN <<"[VIOLATION]", "Rate limit exceeded:",
                     ToString(max_requests_per_minute), "requests/minute limit reached">>
              ELSE IF last.module \notin allowed_modules
              THEN <<"[VIOLATION]", "Unauthorized module:", last.module>>
              ELSE <<"[VIOLATION]", "Restricted action blocked:", last.action>>

\* a restricted action in an allowed module, denied by the exhausted burst limit
WitC10 ==
    /\ Validated /\ ~last.result
    /\ last.action \in restricted_actions
    /\ last.module \in allowed_modules
    /\ EffectiveBurst(last.pre, last.tcheck) >= burst_limit
    /\ LastEntry.body[2] = "Rate limit exceeded: burst limit"

\* C11: the return value of validate and the tag of the entry it appends
\* agree: True with a PASS entry naming the action and the module, False
\* with a VIOLATION entry.
ThmC11 ==
    Validated =>
        /\ Len(audit_log) = Len(last.pre.log) + 1
        /\ IF last.result
           THEN LastEntry.body = <<"[PASS]", last.action, "executed in module", last.module>>
           ELSE LastEntry.body[1] = "[VIOLATION]"

\* a denied call followed by an approved one: a VIOLATION entry, then a PASS entry
WitC11 ==
    /\ Validated /\ last.result
    /\ LastEntry.body[1] = "[PASS]"
    /\ Len(audit_log) >= 2
    /\ audit_log[Len(audit_log) - 1].body[1] = "[VIOLATION]"

IsPrefix(p, q) == Len(p) <= Len(q) /\ SubSeq(q, 1, Len(p)) = p

\* C12: the audit log is append-only: every step of validate, status, the
\* audit-log query, its caller, manual override and approve/deny leaves the
\* log it found as a prefix of the log it leaves.
ThmC12 == [][IsPrefix(audit_log, audit_log')]_vars

\* a governance write onto a log that validate calls have already written
WitC12 ==
    /\ last.op \in {"override", "approve"}
    /\ Len(last.pre.log) >= 2
    /\ IsPrefix(last.pre.log, audit_log)
    /\ Len(audit_log) = Len(last.pre.log) + 1

\* the tag of an entry: the bracketed word that follows the timestamp, or
\* that opens an entry written without one
Tag(entry) == entry.body[1]
Queried == last.op = "audit"

\* C13 (as claimed): auditLog(filterViolations = true) holds, in order,
\* exactly the VIOLATION-tagged entries of the log, whatever strings the
\* entries contain.
CounterC13 ==
    (Queried /\ last.filter) =>
        last.res = SelectSeq(last.pre.log, LAMBDA e : Tag(e) = "[VIOLATION]")

\* the tags of the data model, and the shape "[<timestamp>] [<TAG>] <message>"
SpecTags == {"[PASS]", "[VIOLATION]", "[MANUAL_OVERRIDE]", "[APPROVAL_GRANTED]",
             "[APPROVAL_DENIED]"}
WellFormed(entry) == entry.ts # None /\ Tag(entry) \in SpecTags /\ Len(entry.body) >= 2

\* C14 (as claimed): every entry auditLog returns has the shape
\* "[<timestamp>] [<TAG>] <message>" with TAG one of the five tags.
CounterC14 == Queried => \A i \in DOMAIN last.res : WellFormed(last.res[i])

\* C15: a governance write appends one entry, naming its action and module,
\* and leaves request_times, current_burst and burst_window_start unchanged,
\* for every action and module.
ThmC15 ==
    last.op \in {"override", "approve"} =>
        /\ Len(audit_log) = Len(last.pre.log) + 1
        /\ IsPrefix(last.pre.log, audit_log)
        /\ LastEntry.body[2] = last.action /\ LastEntry.body[4] = last.module
        /\ request_times = last.pre.rt
        /\ current_burst = last.pre.cb
        /\ burst_window_start = last.pre.bws

\* an override for a restricted action in an unauthorized module, written
\* while the burst limit is exhausted
WitC15 ==
    /\ last.op = "override"
    /\ last.module \notin allowed_modules /\ last.action \in restricted_actions
    /\ current_burst >= burst_limit
    /\ Len(audit_log) = Len(last.pre.log) + 1

\* C16: whatever the caller does to the list auditLog returned, for either
\* value of filter_violations, the engine's audit log stays as it was.
ThmC16 == last.op = "mutate" => audit_log = last.pre.log

\* the caller emptied an unfiltered result; the log still holds its entries
WitC16 == last.op = "mutate" /\ ~last.filter /\ Len(audit_log) >= 2

\* C17: the status call is read-only: it leaves request_times (no eviction),
\* current_burst, burst_window_start and the audit log as it found them, so
\* the rate check of a validate call made afterwards, at any time, decides
\* as it would have decided without the status call.
ThmC17 ==
    last.op = "status" =>
        /\ request_times = last.pre.rt
        /\ current_burst = last.pre.cb
        /\ burst_window_start = last.pre.bws
        /\ audit_log = last.pre.log
        /\ \A t \in ClockFrom(last.tnow) :
              check_rate_limit(burst_window_start, current_burst, request_times, t)
                = check_rate_limit(last.pre.bws, last.pre.cb, last.pre.rt, t)

\* a status call made when the deque holds a timestamp older than 60 seconds
\* and the burst epoch has run out: the check would evict and reset here
WitC17 ==
    /\ last.op = "status"
    /\ \E i \in DOMAIN last.pre.rt : last.pre.rt[i] < last.tnow - Window
    /\ last.pre.bws # None /\ last.tnow - last.pre.bws >= Window
    /\ last.pre.cb > 0
    /\ request_times = last.pre.rt

\* the calls so far: k admitted ones, then only denied ones (the audit log
\* holds one entry per call, in call order)
AdmittedThenDenied ==
    \A i \in DOMAIN audit_log :
        Tag(audit_log[i]) = (IF i <= Len(admitted) THEN "[PASS]" ELSE "[VIOLATION]")
AllWithinLastMinute(t) == \A i \in DOMAIN admitted : admitted[i] >= t - Window
OneBurstEpoch == \A i, j \in DOMAIN admitEpochs : admitEpochs[i] = admitEpochs[j]
StatusReports(k) ==
    /\ last.res.requests_last_minute = k
    /\ last.res.remaining_requests = max_requests_per_minute - k
    /\ last.res.burst_usage = <<ToString(k), "/", ToString(burst_limit)>>

\* C18 (as claimed): after exactly k admitted validate calls, all within the
\* last 60 seconds and in one burst epoch, followed by any number of denied
\* calls, status reports requests_last_minute = k, remaining_requests =
\* max - k and burst_usage = "k/burst_limit".
CounterC18 ==
    (/\ last.op = "status"
     /\ AdmittedThenDenied
     /\ AllWithinLastMinute(last.tnow)
     /\ OneBurstEpoch) => StatusReports(Len(admitted))

\* C18 (amended): the same, when each denied call is made less than 60
\* seconds after the start of the burst epoch of the admissions, so that no
\* check has begun a new epoch since.
ThmC18 ==
    (/\ last.op = "status"
     /\ AdmittedThenDenied
     /\ AllWithinLastMinute(last.tnow)
     /\ \A i \in DOMAIN admitEpochs : admitEpochs[i] = burst_window_start)
        => StatusReports(Len(admitted))

\* two admitted calls, then a denied one in the same epoch, then status
WitC18 ==
    /\ last.op = "status"
    /\ Len(admitted) = 2 /\ Len(audit_log) > 2
    /\ AdmittedThenDenied
    /\ AllWithinLastMinute(last.tnow)
    /\ \A i \in DOMAIN admitEpochs : admitEpochs[i] = burst_window_start
    /\ StatusReports(2)

\* C19 (as claimed): construction from a policy that lacks one of the four
\* required keys fails, so every engine that exists, and every engine that
\* has taken a validate call, holds a policy with all four keys.
CounterC19 ==
    /\ engine = "ok" => policy_keys = RequiredKeys
    /\ last.op \in {"validate", "keyerror"} => policy_keys = RequiredKeys

\* C20: after any sequence of validate calls the alerts emitted are, one for
\* one and in order, the VIOLATION entries those calls appended to the audit
\* log, each alert carrying its entry; a call that returns true emits none.
ThmC20 ==
    /\ alerts = SelectSeq(audit_log, LAMBDA e : Tag(e) = "[VIOLATION]")
    /\ (Validated /\ last.result) =>
          Len(alerts) = Len(SelectSeq(last.pre.log, LAMBDA e : Tag(e) = "[VIOLATION]"))

\* a rate-limit violation and a policy violation, each with its alert, and
\* a PASS entry between them without one
WitC20 ==
    /\ Len(alerts) = 2 /\ Len(audit_log) = 3
    /\ \E i \in DOMAIN audit_log : Tag(audit_log[i]) = "[PASS]"
    /\ Validated /\ last.outcome = "RATE"
    /\ LastEntry = alerts[2]
    /\ alerts[1] # alerts[2]

\* C21: a check made at time now with now - burst_window_start >= 60 sets
\* current_burst to 0 and burst_window_start to now before the burst
\* comparison, whatever request_times still holds; that call is therefore
\* not denied by the burst check, and a valid one is admitted unless the
\* sliding window is full.
ThmC21 ==
    (/\ Validated
     /\ last.pre.bws # None
     /\ last.tcheck - last.pre.bws >= Window) =>
        /\ last.chk.cb = 0
        /\ last.chk.bws = last.tcheck
        /\ burst_window_start = last.tcheck
        /\ last.chk.verdict # "DeniedBurst"
        /\ current_burst = (IF last.result THEN 1 ELSE 0)
        /\ ValidInput(last.action, last.module) =>
              (last.result <=> last.chk.verdict # "DeniedWindow")

\* the previous epoch had reached burst_limit and the deque still holds one
\* of its admissions when a valid call rolls the epoch over and is admitted
WitC21 ==
    /\ Validated /\ last.result
    /\ last.pre.bws # None /\ last.tcheck - last.pre.bws >= Window
    /\ last.pre.cb >= burst_limit
    /\ \E i \in DOMAIN last.chk.rt : last.chk.rt[i] < last.tcheck
    /\ current_burst = 1

\* the entries of rt that a check at time t would keep
UnexpiredAt(rt, t) == Cardinality({i \in DOMAIN rt : rt[i] >= t - Window})

\* C22: the burst check comes before the sliding-window check: a check that
\* finds current_burst >= burst_limit (after the epoch test) and at least
\* max_requests_per_minute unexpired entries records the burst violation,
\* naming burst_limit; and a burst denial leaves request_times as it was.
ThmC22 ==
    /\ (/\ Validated
        /\ last.chk.cb >= burst_limit
        /\ UnexpiredAt(last.pre.rt, last.tcheck) >= max_requests_per_minute) =>
           /\ ~last.result
           /\ last.chk.verdict = "DeniedBurst"
           /\ LastEntry.body = <<"[VIOLATION]">> \o BurstMessage
           /\ request_times = last.pre.rt
    /\ (Validated /\ last.chk.verdict = "DeniedBurst") => request_times = last.pre.rt

\* both limits are reached at once, with max_requests_per_minute different
\* from burst_limit so that the two messages differ
WitC22 ==
    /\ Validated
    /\ last.chk.cb >= burst_limit
    /\ UnexpiredAt(last.pre.rt, last.tcheck) >= max_requests_per_minute
    /\ LastEntry.body = <<"[VIOLATION]">> \o BurstMessage
    /\ BurstMessage # MinuteMessage

\* oldest at the front, non-decreasing toward the back
Ordered(rt) == \A i, j \in DOMAIN rt : i < j => rt[i] <= rt[j]

\* a step in which a thread ran _check_rate_limit as far as the eviction loop
CheckEvicted ==
    /\ calls' = calls + 1
    /\ check_rate_limit(burst_window_start, current_burst, request_times, now).verdict
          # "DeniedBurst"

\* C23 (as claimed): under every interleaving of validate calls,
\* request_times stays ordered by time, and right after a check that evicted
\* at time now it holds no timestamp older than now - 60.
CounterC23 ==
    [][/\ Ordered(request_times')
       /\ CheckEvicted =>
             \A i \in DOMAIN request_times' : request_times'[i] >= now - Window]_vars

\* C24 (as claimed): in every reachable audit log, also when validate calls
\* interleave between taking a timestamp and appending the entry, the
\* timestamps of the entries are non-decreasing from first to last.
CounterC24 ==
    \A i, j \in DOMAIN audit_log : i < j => audit_log[i].ts <= audit_log[j].ts

\* C26: with validate calls one at a time, at every time from now on the
\* entries of request_times with timestamp >= that time - 60 are at most
\* max_requests_per_minute, so a status call never reports a negative
\* remaining_requests.
ThmC26 ==
    /\ \A t \in ClockFrom(now) : UnexpiredAt(request_times, t) <= max_requests_per_minute
    /\ last.op = "status" =>
          /\ last.res.remaining_requests >= 0
          /\ last.res.requests_last_minute <= max_requests_per_minute

\* status reports no room left, one of the requests it counts being exactly
\* 60 seconds old, right after a call the window denied
WitC26 ==
    /\ last.op = "status"
    /\ last.res.remaining_requests = 0
    /\ \E i \in DOMAIN request_times : request_times[i] = last.tnow - Window
    /\ Len(audit_log) > 0 /\ LastEntry.body = <<"[VIOLATION]">> \o MinuteMessage

Min(a, b) == IF a <= b THEN a ELSE b
RollingBound == Min(max_requests_per_minute, 2 * burst_limit)

\* the calls that returned True with a timestamp from s up to s + 60,
\* s + 60 itself included or not
AdmittedWithin(s, closed) ==
    Cardinality({i \in DOMAIN admitted :
                    /\ admitted[i] >= s
                    /\ IF closed THEN admitted[i] <= s + Window
                                 ELSE admitted[i] < s + Window})

\* C27 (as claimed): with validate calls one at a time, the calls returning
\* true in any rolling 60-second interval never exceed
\* min(max_requests_per_minute, 2 * burst_limit); the interval is taken as
\* the sliding window takes it, from s up to and including s + 60.
CounterC27 == \A s \in ClockFrom(0) : AdmittedWithin(s, TRUE) <= RollingBound

\* C27 (amended): with validate calls one at a time, the calls returning
\* true with timestamps less than 60 seconds apart, i.e. inside any interval
\* from s up to but not including s + 60, never exceed
\* min(max_requests_per_minute, 2 * burst_limit).
ThmC27 == \A s \in ClockFrom(0) : AdmittedWithin(s, FALSE) <= RollingBound

\* 2 * burst_limit admissions less than 60 seconds apart, more than
\* burst_limit and fewer than max_requests_per_minute
WitC27 ==
    /\ 2 * burst_limit < max_requests_per_minute
    /\ \E s \in ClockFrom(0) : AdmittedWithin(s, FALSE) = 2 * burst_limit
    /\ Validated /\ last.result

\* the call was made strictly more than 60 seconds after the most recent
\* admission and at least 60 seconds after burst_window_start
LongAfter ==
    /\ \A i \in DOMAIN last.pre.rt : last.tcheck - last.pre.rt[i] > Window
    /\ last.pre.bws # None
    /\ last.tcheck - last.pre.bws >= Window
ValidCall == Validated /\ ValidInput(last.action, last.module)

\* C25: no permanent lockout: a call with an allowed module and a
\* non-restricted action, made strictly more than 60 seconds after the most
\* recent admission and at least 60 seconds after burst_window_start,
\* returns true whatever denials came before; and when time keeps advancing
\* and the caller of a denied valid request keeps retrying, a retry is
\* eventually admitted.
ThmC25 ==
    /\ []((ValidCall /\ LongAfter) => last.result)
    /\ (ValidCall /\ ~last.result) ~> (ValidCall /\ last.result)

\* a valid call admitted although the epoch it found had reached
\* burst_limit and the deque was full of admissions older than 60 seconds
WitC25 ==
    /\ ValidCall /\ LongAfter /\ last.result
    /\ last.pre.cb >= burst_limit
    /\ Len(last.pre.rt) >= max_requests_per_minute
====
